---- MODULE Spec2Model ----
(***************************************************************************)
(* Model of navis/io/nmx_io.py: the NML reader (NMLReader.read_nml), the   *)
(* NMX archive reader (NMXReader.read_buffer) and the NML writer           *)
(* (write_nml).                                                            *)
(*                                                                         *)
(* A document is what ET.parse hands to read_nml: the attribute            *)
(* dictionaries of the children of the first two children of the <thing>   *)
(* element.  Attribute values are decimal strings, modelled as sequences   *)
(* of one-character strings.  Positions and radii are carried through      *)
(* unchanged by the code and are not modelled.                             *)
(***************************************************************************)
EXTENDS Integers, Sequences, FiniteSets, TLC

\* ---------------------------------------------------------------- bounds
\* node identifiers of a document given to read_nml are drawn from 1..MaxId
MaxId == 3
\* a document given to read_nml has at most MaxEdges edge elements
MaxEdges == 3
\* the same two bounds for the member an archive holds
MaxMemberId == 2
MaxMemberEdges == 1
\* an archive holds at most MaxMembers members
MaxMembers == 2

\* ------------------------------------------------------ program constants
\* nodes.parent_id.fillna(-1) / row["Parent"] != -1
NONE == -1

\* ------------------------------------------------------------ conversions
Digits == <<"0", "1", "2", "3", "4", "5", "6", "7", "8", "9">>

RECURSIVE NatStr(_)
NatStr(n) ==
    IF n < 10 THEN <<Digits[n + 1]>>
    ELSE NatStr(n \div 10) \o <<Digits[(n % 10) + 1]>>

\* str(int(v)): the decimal string of an integer
str(n) == IF n < 0 THEN <<"-">> \o NatStr(0 - n) ELSE NatStr(n)

DigitVal(c) == (CHOOSE d \in 1..10 : Digits[d] = c) - 1

RECURSIVE NatVal(_)
NatVal(s) ==
    IF Len(s) = 0 THEN 0
    ELSE 10 * NatVal(SubSeq(s, 1, Len(s) - 1)) + DigitVal(s[Len(s)])

\* .astype(int): the integer a decimal string denotes
astype_int(s) == IF s[1] = "-" THEN 0 - NatVal(Tail(s)) ELSE NatVal(s)

\* ------------------------------------------------------------- sequences
SeqToSet(s) == {s[i] : i \in 1..Len(s)}

Contains(s, x) == \E i \in 1..Len(s) : s[i] = x

\* append x unless it is already there (dict insertion order)
AddOnce(s, x) == IF Contains(s, x) THEN s ELSE Append(s, x)

\* ------------------------------------------------------- read_nml, tables
\* nodes = DataFrame.from_records(...); rename id -> node_id; astype
NodeIds(nodeAttrs) == [i \in 1..Len(nodeAttrs) |-> astype_int(nodeAttrs[i].id)]

\* edges = DataFrame.from_records(...).astype(int); edges.values
EdgeValues(edgeAttrs) ==
    [i \in 1..Len(edgeAttrs) |->
        <<astype_int(edgeAttrs[i].source), astype_int(edgeAttrs[i].target)>>]

\* ------------------------------------------------------ read_nml, graph G
\* list(G.nodes) after G.add_edges_from(edges.values): first appearance
RECURSIVE GNodes(_)
GNodes(ev) ==
    IF Len(ev) = 0 THEN <<>>
    ELSE LET e == ev[Len(ev)]
             g == GNodes(SubSeq(ev, 1, Len(ev) - 1))
         IN  AddOnce(AddOnce(g, e[1]), e[2])

\* a directed graph would record only adj[u][v]
AdjDirected(ev, u) ==
    LET F[k \in 0..Len(ev)] ==
            IF k = 0 THEN <<>>
            ELSE LET e == ev[k]
                     a == F[k - 1]
                 IN  IF e[1] = u THEN AddOnce(a, e[2]) ELSE a
    IN  F[Len(ev)]

\* G.adj[u] of nx.Graph: the neighbours of u in the order the edges were added
Adj(ev, u) ==
    LET F[k \in 0..Len(ev)] ==
            IF k = 0 THEN <<>>
            ELSE LET e == ev[k]
                     a == F[k - 1]
                 IN  IF e[1] = u THEN AddOnce(a, e[2])
                     ELSE IF e[2] = u THEN AddOnce(a, e[1])
                     ELSE a
    IN  F[Len(ev)]

StartLast(gnodes) == gnodes[Len(gnodes)]

\* list(G.nodes)[0]
StartNode(gnodes) == gnodes[1]

\* one step of the breadth-first search: the children of the node p in
\* front of the queue, taken in adjacency order
RECURSIVE Visit(_, _, _, _)
Visit(p, children, seen, found) ==
    IF Len(children) = 0 THEN [seen |-> seen, found |-> found]
    ELSE LET c == Head(children)
         IN  IF c \in seen
             THEN Visit(p, Tail(children), seen, found)
             ELSE Visit(p, Tail(children), seen \cup {c}, Append(found, <<p, c>>))

RECURSIVE BfsEdges(_, _, _, _)
BfsEdges(ev, queue, seen, acc) ==
    IF Len(queue) = 0 THEN acc
    ELSE LET p == Head(queue)
             v == Visit(p, Adj(ev, p), seen, <<>>)
             discovered == [i \in 1..Len(v.found) |-> v.found[i][2]]
         IN  BfsEdges(ev, Tail(queue) \o discovered, v.seen, acc \o v.found)

\* list(nx.bfs_tree(G, source).edges): (parent, child) pairs
bfs_tree(ev, source) == BfsEdges(ev, <<source>>, {source}, <<>>)

\* edges.set_index('target').reindex([n]).source, NaN filled with -1
ParentOf(treeEdges, n) ==
    IF \E i \in 1..Len(treeEdges) : treeEdges[i][2] = n
    THEN treeEdges[CHOOSE i \in 1..Len(treeEdges) : treeEdges[i][2] = n][1]
    ELSE NONE

RECURSIVE InsertRow(_, _)
InsertRow(sorted, r) ==
    IF Len(sorted) = 0 THEN <<r>>
    ELSE IF r.node_id < Head(sorted).node_id THEN <<r>> \o sorted
    ELSE <<Head(sorted)>> \o InsertRow(Tail(sorted), r)

\* nodes.sort_values('node_id')
RECURSIVE SortById(_)
SortById(rows) ==
    IF Len(rows) = 0 THEN <<>>
    ELSE InsertRow(SortById(SubSeq(rows, 1, Len(rows) - 1)), rows[Len(rows)])

RowsDropna(ids, treeEdges) ==
    LET all == [i \in 1..Len(ids) |->
                   [node_id |-> ids[i], parent_id |-> ParentOf(treeEdges, ids[i])]]
        F[k \in 0..Len(all)] ==
            IF k = 0 THEN <<>>
            ELSE IF all[k].parent_id = NONE THEN F[k - 1]
            ELSE Append(F[k - 1], all[k])
    IN  F[Len(all)]

\* the node table with its parent_id column
Rows(ids, treeEdges) ==
    [i \in 1..Len(ids) |->
        [node_id |-> ids[i], parent_id |-> ParentOf(treeEdges, ids[i])]]

\* NMLReader.read_nml: the outcome and, when it returns, the node table.
\* Without edge elements G has no node and list(G.nodes)[0] raises
\* IndexError; without node elements the nodes frame has no column and
\* nodes.node_id raises AttributeError.
read_nml(nodeAttrs, edgeAttrs) ==
    LET ids == NodeIds(nodeAttrs)
        ev == EdgeValues(edgeAttrs)
        gnodes == GNodes(ev)
    IN  IF Len(gnodes) = 0
        THEN [outcome |-> "IndexError", nodes |-> <<>>]
        ELSE IF Len(nodeAttrs) = 0
        THEN [outcome |-> "AttributeError", nodes |-> <<>>]
        ELSE [outcome |-> "ok",
              nodes |-> SortById(Rows(ids, bfs_tree(ev, StartNode(gnodes))))]

\* ------------------------------------------------------------- documents
\* the elements of the set S of integers in ascending order
RECURSIVE Ascending(_)
Ascending(S) ==
    IF S = {} THEN <<>>
    ELSE LET least == CHOOSE x \in S : \A y \in S : x <= y
         IN  <<least>> \o Ascending(S \ {least})

Reverse(s) == [i \in 1..Len(s) |-> s[Len(s) + 1 - i]]

\* node tables: every subset of 1..n, listed in ascending and in descending
\* order of identifier
NodeTables(n) ==
    UNION {{Ascending(S), Reverse(Ascending(S))} : S \in SUBSET (1..n)}

Pairs(n) == {p \in (1..n) \X (1..n) : p[1] # p[2]}

\* edge lists: at most m unordered pairs over 1..n, each listed once, in any
\* order and either orientation
EdgeLists(n, m) ==
    UNION {{s \in [1..k -> Pairs(n)] :
               \A i, j \in 1..k : i # j => {s[i][1], s[i][2]} # {s[j][1], s[j][2]}}
           : k \in 0..m}

NodeDoc(t) == [i \in 1..Len(t) |-> [id |-> str(t[i])]]

EdgeDoc(e) == [i \in 1..Len(e) |-> [source |-> str(e[i][1]), target |-> str(e[i][2])]]

\* ------------------------------------------------------------- write_nml
\* make_swc_table(x, labels=False, export_connectors=False): the node table
\* reindexed to 1..n in table order, parents renamed with the same map
make_swc_table(rows) ==
    LET new_id(n) == CHOOSE i \in 1..Len(rows) : rows[i].node_id = n
    IN  [i \in 1..Len(rows) |->
            [PointNo |-> i,
             Parent |-> IF rows[i].parent_id = NONE THEN NONE
                        ELSE new_id(rows[i].parent_id)]]

\* the node elements appended in the loop over swc.iterrows()
NodeElements(swc) == [i \in 1..Len(swc) |-> [id |-> str(swc[i].PointNo)]]

EdgeElementsAll(swc) ==
    [i \in 1..Len(swc) |->
        [source |-> str(swc[i].Parent), target |-> str(swc[i].PointNo)]]

\* the edge elements appended in the loop: if row["Parent"] != -1
RECURSIVE EdgeElements(_)
EdgeElements(swc) ==
    IF Len(swc) = 0 THEN <<>>
    ELSE LET row == swc[Len(swc)]
             before == EdgeElements(SubSeq(swc, 1, Len(swc) - 1))
         IN  IF row.Parent # NONE
             THEN Append(before, [source |-> str(row.Parent),
                                  target |-> str(row.PointNo)])
             ELSE before

\* write_nml: the children of <nodes> and of <edges> in the written tree
write_nml(swc) == [nodes |-> NodeElements(swc), edges |-> EdgeElements(swc)]

\* ------------------------------------------------- NMXReader.read_buffer
\* member names, as sequences of name parts
FileNames ==
    { <<"a", "/", "skeleton", ".nml">>,
      <<"b", "/", "skeleton", ".txt">>,
      <<"b", "/", "mesh", ".nml">>,
      <<"skeleton", ".nml">> }

Archives == UNION {[1..k -> FileNames] : k \in 0..MaxMembers}

\* f.filename.endswith('.nml') and 'skeleton' in f.filename
Qualifies(name) == name[Len(name)] = ".nml" /\ Contains(name, "skeleton")

\* f.filename.split('/')[0]
RECURSIVE TopSegment(_)
TopSegment(name) ==
    IF Len(name) = 0 \/ Head(name) = "/" THEN <<>>
    ELSE <<Head(name)>> \o TopSegment(Tail(name))

\* the member the loop over zip.filelist returns on, 0 when it runs through
FirstQualifying(members) ==
    IF \E i \in 1..Len(members) : Qualifies(members[i])
    THEN CHOOSE i \in 1..Len(members) :
            /\ Qualifies(members[i])
            /\ \A j \in 1..(i - 1) : ~Qualifies(members[j])
    ELSE 0

\* NMXReader.read_buffer on a buffer holding the archive `members`, the
\* selected member's content being the document (nodeAttrs, edgeAttrs).
\* zip_after: the states the ZipFile can be in when the call is over.  The
\* function never calls zip.close(); when it returns, the object is left to
\* its finalizer, which may or may not have run; when it raises, the
\* traceback keeps the frame and with it the open ZipFile.
read_buffer(isBytes, members, attrs, nodeAttrs, edgeAttrs) ==
    LET q == FirstQualifying(members)
        r == read_nml(nodeAttrs, edgeAttrs)
        raise(e, z) == [outcome |-> e, nodes |-> <<>>, file |-> <<>>, id |-> <<>>,
                        log |-> <<>>, zip_after |-> {z}]
    IN  IF ~isBytes THEN raise("ValueError", "unopened")
        ELSE IF q # 0
        THEN IF attrs = "None" THEN raise("TypeError", "open")
             ELSE [outcome |-> r.outcome, nodes |-> r.nodes,
                   file |-> members[q], id |-> TopSegment(members[q]),
                   log |-> <<>>,
                   zip_after |-> IF r.outcome = "ok" THEN {"open", "closed"}
                                 ELSE {"open"}]
        ELSE IF Len(members) = 0 THEN raise("AttributeError", "open")
        ELSE [outcome |-> "None", nodes |-> <<>>, file |-> <<>>, id |-> <<>>,
              log |-> <<TopSegment(members[Len(members)]) \o <<".nmx">> >>,
              zip_after |-> {"open", "closed"}]

VARIABLES
    op,          \* the call made last: idle, read_nml, read_buffer, write_nml
    nodes_in,    \* the node elements' attributes of the document decoded
    edges_in,    \* the edge elements' attributes of the document decoded
    outcome,     \* ok, None (returned nothing) or the exception raised
    neuron,      \* the node table of the TreeNeuron returned
    is_bytes,    \* read_buffer: the buffer yields bytes
    members,     \* read_buffer: zip.filelist, the member names
    attrs,       \* read_buffer: the attrs argument, "None" or "dict"
    attrs_file,  \* attrs['file']
    attrs_id,    \* attrs['id']
    zip,         \* the ZipFile: unopened, open, closed
    zip_mode,    \* the mode the ZipFile was opened in
    log,         \* the warnings logged
    swc,         \* write_nml: the table make_swc_table returned
    xml_nodes,   \* write_nml: the node elements written
    xml_edges    \* write_nml: the edge elements written

vars == <<op, nodes_in, edges_in, outcome, neuron, is_bytes, members, attrs,
          attrs_file, attrs_id, zip, zip_mode, log, swc, xml_nodes, xml_edges>>

archive_vars == <<is_bytes, members, attrs, attrs_file, attrs_id, zip, zip_mode, log>>

write_vars == <<swc, xml_nodes, xml_edges>>

Init ==
    /\ op = "idle"
    /\ nodes_in = <<>>
    /\ edges_in = <<>>
    /\ outcome = "none"
    /\ neuron = <<>>
    /\ is_bytes = TRUE
    /\ members = <<>>
    /\ attrs = "None"
    /\ attrs_file = <<>>
    /\ attrs_id = <<>>
    /\ zip = "unopened"
    /\ zip_mode = "none"
    /\ log = <<>>
    /\ swc = <<>>
    /\ xml_nodes = <<>>
    /\ xml_edges = <<>>

\* NMLReader.read_nml on a document
ReadNml ==
    /\ op = "idle"
    /\ \E t \in NodeTables(MaxId), e \in EdgeLists(MaxId, MaxEdges) :
          LET r == read_nml(NodeDoc(t), EdgeDoc(e))
          IN  /\ nodes_in' = NodeDoc(t)
              /\ edges_in' = EdgeDoc(e)
              /\ outcome' = r.outcome
              /\ neuron' = r.nodes
    /\ op' = "read_nml"
    /\ UNCHANGED <<archive_vars, write_vars>>

\* one call of read_buffer: its arguments and what it leaves behind
ReadBufferCall(b, ms, a, nodeAttrs, edgeAttrs) ==
    LET r == read_buffer(b, ms, a, nodeAttrs, edgeAttrs)
    IN  /\ is_bytes' = b
        /\ members' = ms
        /\ attrs' = a
        /\ nodes_in' = nodeAttrs
        /\ edges_in' = edgeAttrs
        /\ outcome' = r.outcome
        /\ neuron' = r.nodes
        /\ attrs_file' = r.file
        /\ attrs_id' = r.id
        /\ log' = r.log
        /\ zip' \in r.zip_after
        /\ zip_mode' = IF b THEN "r" ELSE "none"

\* NMXReader.read_buffer on a buffer; the content of the member is read
\* only when a member is selected and attrs is a dict
ReadBuffer ==
    /\ op = "idle"
    /\ \E b \in BOOLEAN, ms \in Archives, a \in {"None", "dict"} :
          IF b /\ FirstQualifying(ms) # 0 /\ a = "dict"
          THEN \E t \in NodeTables(MaxMemberId),
                  e \in EdgeLists(MaxMemberId, MaxMemberEdges) :
                  ReadBufferCall(b, ms, a, NodeDoc(t), EdgeDoc(e))
          ELSE ReadBufferCall(b, ms, a, <<>>, <<>>)
    /\ op' = "read_buffer"
    /\ UNCHANGED write_vars

\* make_swc_table is given a table whose parents are rows of the table
Exportable(rows) ==
    \A i \in 1..Len(rows) :
        \/ rows[i].parent_id = NONE
        \/ \E j \in 1..Len(rows) : rows[j].node_id = rows[i].parent_id

\* write_nml on the neuron read last
WriteNml ==
    /\ op \in {"read_nml", "read_buffer"}
    /\ outcome = "ok"
    /\ Exportable(neuron)
    /\ LET t == make_swc_table(neuron)
           w == write_nml(t)
       IN  /\ swc' = t
           /\ xml_nodes' = w.nodes
           /\ xml_edges' = w.edges
    /\ op' = "write_nml"
    /\ UNCHANGED <<nodes_in, edges_in, outcome, neuron, archive_vars>>

Next == ReadNml \/ ReadBuffer \/ WriteNml

Spec == Init /\ [][Next]_vars

\* ==================================================== the document decoded
\* the nodes joined to the nodes of S by a path of edges of ES
RECURSIVE Component(_, _)
Component(ES, S) ==
    LET step == S \cup {v \in UNION ES : \E u \in S : {u, v} \in ES}
    IN  IF step = S THEN S ELSE Component(ES, step)

\* (N, ES) is a tree: edges over N, connected, no cycle
TreeShaped(N, ES) ==
    /\ N # {}
    /\ UNION ES \subseteq N
    /\ \A e \in ES : Cardinality(e) = 2
    /\ Cardinality(ES) = Cardinality(N) - 1
    /\ Component(ES, {CHOOSE n \in N : TRUE}) = N

\* the document read: its node set N, its edge list E as integers, the
\* undirected edge set ES, the first node of the node table, the first
\* endpoint of the first edge listed and the nodes joined to it
Doc ==
    LET ids == NodeIds(nodes_in)
        E == EdgeValues(edges_in)
        N == SeqToSet(ids)
        ES == {{E[i][1], E[i][2]} : i \in 1..Len(E)}
        start == IF Len(E) = 0 THEN 0 ELSE E[1][1]
    IN  [N |-> N, E |-> E, ES |-> ES,
         first |-> IF Len(ids) = 0 THEN 0 ELSE ids[1],
         start |-> start,
         reached |-> Component(ES, {start}),
         over |-> UNION ES \subseteq N,
         tree |-> TreeShaped(N, ES)]

\* ====================================================== the neuron returned
Returned == op \in {"read_nml", "read_buffer"} /\ outcome = "ok"

\* the output node table: its node ids, its roots, its parent links
Out ==
    LET ids == {neuron[i].node_id : i \in 1..Len(neuron)}
    IN  [ids |-> ids,
         roots |-> {neuron[i].node_id :
                       i \in {j \in 1..Len(neuron) : neuron[j].parent_id = NONE}},
         parent |-> [n \in ids |->
                       neuron[CHOOSE i \in 1..Len(neuron) : neuron[i].node_id = n].parent_id]]

Realized(o, u, v) ==
    /\ u \in o.ids
    /\ v \in o.ids
    /\ (o.parent[v] = u \/ o.parent[u] = v)

\* ------------------------------------------------------------------- C1
\* C1: for every non-empty node set N and edge set E over N with (N, E)
\* connected and acyclic, the one-node skeleton without edges included,
\* read_nml returns, exactly one node of the output table has parent_id = -1
\* and every other node's parent_id is a node of N.
C1_SingleRoot ==
    LET d == Doc
        o == Out
    IN  (op = "read_nml" /\ d.tree) =>
            /\ outcome = "ok"
            /\ Cardinality(o.roots) = 1
            /\ \A n \in o.ids \ o.roots : o.parent[n] \in d.N

\* ------------------------------------------------------------------- C2
\* C2 as stated: for every edge (u, v) of the input edge list (its endpoints
\* in N), whatever the shape of the graph, the output has parent(v) = u or
\* parent(u) = v, and every parent link of the output is an input edge.
C2_EdgeFaithfulEveryInput ==
    LET d == Doc
        o == Out
    IN  (Returned /\ d.over) =>
            /\ \A i \in 1..Len(d.E) : Realized(o, d.E[i][1], d.E[i][2])
            /\ \A n \in o.ids \ o.roots : {n, o.parent[n]} \in d.ES

\* C2 amended: when (N, E) is connected and acyclic with its edges over N,
\* every edge (u, v) of the input edge list is realized as parent(v) = u or
\* parent(u) = v; and for every document that decodes, every parent link of
\* the output is an input edge.
C2_EdgeFaithfulOnTrees ==
    LET d == Doc
        o == Out
    IN  Returned =>
            /\ d.tree => \A i \in 1..Len(d.E) : Realized(o, d.E[i][1], d.E[i][2])
            /\ \A n \in o.ids \ o.roots : {n, o.parent[n]} \in d.ES

\* a tree of two edges, one realized source to target, the other target to
\* source
C2_Witness ==
    LET d == Doc
        o == Out
    IN  /\ op = "read_nml"
        /\ outcome = "ok"
        /\ d.tree
        /\ Len(d.E) = 2
        /\ \E i \in 1..2 : o.parent[d.E[i][1]] = d.E[i][2]
        /\ \E i \in 1..2 : o.parent[d.E[i][2]] = d.E[i][1]

\* ------------------------------------------------------------------- C8
\* C8 as stated: for every connected acyclic input and every order of the
\* edges, the node that receives parent = NONE is the first node of the node
\* table (of the table as given or, read the other way, as returned).
C8_RootIsFirstTableNode ==
    LET d == Doc
    IN  (Returned /\ d.tree) =>
            (Out.roots = {d.first} \/ Out.roots = {neuron[1].node_id})

\* C8 amended: for every connected acyclic input that has an edge, the node
\* that receives parent = NONE is the first endpoint of the first edge
\* listed, whatever the order of the node table.
C8_RootIsFirstEndpoint ==
    LET d == Doc
    IN  (Returned /\ d.tree) => Out.roots = {d.start}

\* the root is neither the first node of the node table given nor the first
\* node of the table returned
C8_Witness ==
    LET d == Doc
    IN  /\ op = "read_nml"
        /\ outcome = "ok"
        /\ d.tree
        /\ Len(d.E) = 2
        /\ Out.roots = {d.start}
        /\ d.start # d.first
        /\ d.start # neuron[1].node_id

\* ------------------------------------------------------------------- C9
\* the input graph has nodes the search from the start node does not reach
Disconnected(d) == (d.N \cup UNION d.ES) \ d.reached # {}

C6_DanglingEdgeFails ==
    LET d == Doc
        o == Out
    IN  /\ (op = "read_nml" /\ ~d.over) => outcome # "ok"
        /\ Returned => \A n \in o.ids \ o.roots : o.parent[n] \in o.ids

\* ------------------------------------------------------------------- C7
\* the exceptions read_nml raises on documents with an empty node set
EmptyNodeSetErrors ==
    {read_nml(<<>>, EdgeDoc(e)).outcome : e \in EdgeLists(MaxId, MaxEdges)}

\* C7: decoding a skeleton whose node set is empty fails, and the check that
\* fails it does not reject a non-empty node set.
C7_EmptyNodeSetFails ==
    op = "read_nml" =>
        /\ nodes_in = <<>> => outcome # "ok"
        /\ nodes_in # <<>> => outcome \notin EmptyNodeSetErrors

\* ------------------------------------------------------------------- C3
Bijections(A, B) ==
    {m \in [A -> B] : \A b \in B : \E a \in A : m[a] = b}

\* C3: for every skeleton (N, E), a tree, decoding it succeeds and
\* re-encoding the result yields one node element per node of N and an edge
\* list whose undirected adjacency set is E up to the renumbering of the
\* export.
C3_RoundTrip ==
    LET d == Doc
        ids == {astype_int(xml_nodes[i].id) : i \in 1..Len(xml_nodes)}
        written == {{astype_int(xml_edges[i].source), astype_int(xml_edges[i].target)} :
                       i \in 1..Len(xml_edges)}
    IN  /\ (op = "read_nml" /\ d.tree) => outcome = "ok"
        /\ (op = "write_nml" /\ d.tree) =>
              /\ Len(xml_nodes) = Cardinality(d.N)
              /\ Len(xml_edges) = Cardinality(d.ES)
              /\ \E m \in Bijections(d.N, ids) :
                    written = {{m[u] : u \in e} : e \in d.ES}

\* ------------------------------------------------------------------- C4
\* C4: write_nml emits one node element per row of the exported table and
\* one edge element per non-root row, source the row's parent id and target
\* the row's own id; a root row contributes no edge, no edge element has a
\* root as its target, and there are as many edge elements as nodes less
\* roots.
C4_OneEdgePerNonRoot ==
    LET roots == {i \in 1..Len(swc) : swc[i].Parent = NONE}
        edgesTo == [i \in 1..Len(swc) |->
                       {k \in 1..Len(xml_edges) :
                           astype_int(xml_edges[k].target) = swc[i].PointNo}]
    IN  op = "write_nml" =>
            /\ Len(xml_nodes) = Len(swc)
            /\ \A i \in 1..Len(swc) : astype_int(xml_nodes[i].id) = swc[i].PointNo
            /\ \A i \in 1..Len(swc) \ roots :
                  /\ Cardinality(edgesTo[i]) = 1
                  /\ \A k \in edgesTo[i] : astype_int(xml_edges[k].source) = swc[i].Parent
            /\ \A i \in roots : edgesTo[i] = {}
            /\ Len(xml_edges) = Len(swc) - Cardinality(roots)

\* the two-node tree of the specification's scenario: root 1, child 2
C4_Witness ==
    /\ op = "write_nml"
    /\ swc = <<[PointNo |-> 1, Parent |-> NONE], [PointNo |-> 2, Parent |-> 1]>>
    /\ xml_nodes = <<[id |-> <<"1">>], [id |-> <<"2">>]>>
    /\ xml_edges = <<[source |-> <<"1">>, target |-> <<"2">>]>>

\* ------------------------------------------------------------------- C5
\* C5: read_buffer never raises when no member of the archive qualifies, an
\* archive without members included: it logs one warning naming the archive
\* and returns nothing.
C5_NoQualifyingMemberWarns ==
    (/\ op = "read_buffer"
     /\ is_bytes
     /\ \A i \in 1..Len(members) : ~Qualifies(members[i])) =>
        /\ outcome = "None"
        /\ Len(log) = 1
        /\ neuron = <<>>

\* ------------------------------------------------------------------ C10
\* C10: the archive handle read_buffer opened is closed when the call is
\* over, on every exit path: a member decoded and returned, no member
\* qualifying, decoding raising; and it is only ever opened for reading.
C10_ArchiveClosedOnExit ==
    (op = "read_buffer" /\ zip # "unopened") => (zip = "closed" /\ zip_mode = "r")

====
